---- MODULE Spec2Model ----
(***************************************************************************)
(* Model of detection-service/detection_server.py: the Socket.IO event     *)
(* handlers, the bounded detection_queue, the detection_worker thread, the *)
(* active_sessions registry guarded by session_lock, and the REST /detect  *)
(* endpoint.  detect_objects of yolo_detector.py is modelled by its        *)
(* outcome (a result dictionary or an exception).                          *)
(***************************************************************************)
EXTENDS Integers, Sequences, FiniteSets, TLC

\* ---------------------------------------------------------------- bounds
\* requests (join, frame, stats, /detect) the clients make in a run of Spec
MaxEvents == 3
\* requests the client makes in a run of FairSpec
MaxDrainEvents == 5
\* requests the clients make in a run of SpecOrder
MaxOrderEvents == 5
\* requests the clients make in a run of SpecLoad (more than the queue holds)
MaxLoadEvents == 13
\* requests the clients make in a run of FairLockSpec
MaxLockEvents == 3
\* requests the clients make in a run of SpecRemoval (more than the queue holds)
MaxRemovalEvents == 14

\* ------------------------------------------------------- program constants
\* queue.Queue(maxsize=10)
QueueMaxsize == 10

None == "None"
Free == "free"
Worker == "worker"
Rest == "rest"

\* transports (Socket.IO sids) and caller-supplied session ids
SIDs == {"A", "B"}
SessionIds == {"s1", "s2"}
\* payloads of the 'image' field: one decodable frame, one corrupt payload
Images == {"person", "corrupt"}
\* what the model call self.model(...) does on a decoded image
Outcomes == {"ok", "inference_error"}
\* what sio.emit does in the worker
EmitOutcomes == {"sent", "emit_error"}

VARIABLES
    detector,          \* the global detector: "YOLODetector" once initialised
    maxsize,           \* detection_queue.maxsize
    queue,             \* detection_queue: sequence of (session_id, image, timestamp)
    unfinished_tasks,  \* detection_queue.unfinished_tasks
    active_sessions,   \* the dict, as the sequence of its items in insertion order
    session_lock,      \* holder of session_lock, or Free
    conn,              \* per sid: "new", "open" or "closed"
    rooms,             \* Socket.IO rooms named by a session id: the sids in them
    hpc,               \* per sid: where its current event handler is
    hloc,              \* per sid: the handler's local variables
    wpc,               \* where detection_worker is
    job,               \* the worker's (session_id, image_data, timestamp)
    results,           \* the worker's results dictionary
    exc,               \* the exception the worker's try block raised
    inferring,         \* the threads inside detector.detect_objects
    rpc,               \* where the /detect request handler is
    sent,              \* every sio.emit so far, with the sids that received it
    enqueued,          \* timestamps in the order put_nowait accepted them
    dropped,           \* timestamps of the results the worker did not emit
    nreq,              \* process_frame requests so far
    clock,             \* time.time(), advanced by the joins
    nev                \* requests of the clients so far

vars == <<detector, maxsize, queue, unfinished_tasks, active_sessions, session_lock,
          conn, rooms, hpc, hloc, wpc, job, results, exc, inferring, rpc, sent,
          enqueued, dropped, nreq, clock, nev>>

NoLocals == [session_id |-> None, image |-> None, timestamp |-> 0]
NoJob == [session_id |-> None, image |-> None, timestamp |-> 0]
NoResults == [detections |-> <<>>, detection_count |-> 0, processing_time |-> 0, fps |-> 0]

\* ------------------------------------------------------ the session dict
Keys(d) == {d[i].session_id : i \in 1..Len(d)}

IndexOf(d, k) == CHOOSE i \in 1..Len(d) : d[i].session_id = k

Lookup(d, k) == d[IndexOf(d, k)]

RemoveAt(d, i) == [j \in 1..(Len(d) - 1) |-> IF j < i THEN d[j] ELSE d[j + 1]]

\* a join that keeps the frame_count of an entry it finds
SetItemKeepCount(d, k, sid, now) ==
    LET item == [session_id |-> k, sid |-> sid, joined_at |-> now,
                 frame_count |-> IF k \in Keys(d) THEN Lookup(d, k).frame_count ELSE 0,
                 last_detection |-> None]
    IN IF k \in Keys(d) THEN [d EXCEPT ![IndexOf(d, k)] = item] ELSE Append(d, item)

\* active_sessions[session_id] = {...}: a known key keeps its place in the dict
SetItem(d, k, sid, now) ==
    LET item == [session_id |-> k, sid |-> sid, joined_at |-> now,
                 frame_count |-> 0, last_detection |-> None]
    IN IF k \in Keys(d) THEN [d EXCEPT ![IndexOf(d, k)] = item] ELSE Append(d, item)

\* a counter that counts every frame twice
IncFrameCountTwice(d, k) ==
    [d EXCEPT ![IndexOf(d, k)].frame_count = @ + 2]

\* active_sessions[session_id]['frame_count'] += 1
IncFrameCount(d, k) ==
    [d EXCEPT ![IndexOf(d, k)].frame_count = @ + 1]

\* the loop of disconnect: the first item whose sid matches is deleted
RemoveBySid(d, sid) ==
    IF \E i \in 1..Len(d) : d[i].sid = sid
    THEN RemoveAt(d, CHOOSE i \in 1..Len(d) :
                        /\ d[i].sid = sid
                        /\ \A j \in 1..(i - 1) : d[j].sid # sid)
    ELSE d

\* ------------------------------------------------------------- sio.emit
\* an emit without room=: every connected sid receives it
RecipientsBroadcast(room) == {c \in SIDs : conn[c] = "open"}

\* the sids that receive an emit to `room`: a sid is the only member of the
\* room of its own name; a session room holds the sids that entered it
Recipients(room) ==
    IF room \in SIDs
    THEN (IF conn[room] = "open" THEN {room} ELSE {})
    ELSE {c \in rooms[room] : conn[c] = "open"}

Emit(event, data, room, src, req) ==
    Append(sent, [event |-> event, data |-> data, room |-> room,
                  to |-> Recipients(room), src |-> src, req |-> req])

ErrorData(msg) == [message |-> msg]

\* a queue-full reply that reports the frame as processed
QueueFullDataTimed(session_id, timestamp) ==
    [session_id |-> session_id, timestamp |-> timestamp,
     error |-> "Detection queue full, frame skipped",
     detections |-> <<>>, processing_time |-> 1, fps |-> 1]

\* the dictionary process_frame sends when put_nowait raises queue.Full
QueueFullData(session_id, timestamp) ==
    [session_id |-> session_id, timestamp |-> timestamp,
     error |-> "Detection queue full, frame skipped",
     detections |-> <<>>, processing_time |-> 0, fps |-> 0]

\* -------------------------------------------------- YOLODetector.detect_objects
\* the boxes the model finds in a decoded image
Boxes(image) == IF image = "person" THEN <<"person">> ELSE <<>>

\* time.time() - start_time, in ticks
Duration(image) == IF image = "person" THEN 1 ELSE 0

DetectResult(image) ==
    LET detections == Boxes(image)
        processing_time == Duration(image)
    IN [detections |-> detections,
        detection_count |-> Len(detections),
        processing_time |-> processing_time,
        fps |-> IF processing_time > 0 THEN 1 \div processing_time ELSE 0]

\* --------------------------------------------------------------- Init
Init ==
    /\ detector = "YOLODetector"
    /\ maxsize = QueueMaxsize
    /\ queue = <<>>
    /\ unfinished_tasks = 0
    /\ active_sessions = <<>>
    /\ session_lock = Free
    /\ conn = [c \in SIDs |-> "new"]
    /\ rooms = [s \in SessionIds |-> {}]
    /\ hpc = [c \in SIDs |-> "idle"]
    /\ hloc = [c \in SIDs |-> NoLocals]
    /\ wpc = "get"
    /\ job = NoJob
    /\ results = NoResults
    /\ exc = None
    /\ inferring = {}
    /\ rpc = "idle"
    /\ sent = <<>>
    /\ enqueued = <<>>
    /\ dropped = {}
    /\ nreq = 0
    /\ clock = 0
    /\ nev = 0

\* ------------------------------------------------ connect / disconnect
\* connect(sid, environ)
Connect(c) ==
    /\ conn[c] = "new"
    /\ conn' = [conn EXCEPT ![c] = "open"]
    /\ UNCHANGED <<detector, maxsize, queue, unfinished_tasks, active_sessions,
                   session_lock, rooms, hpc, hloc, wpc, job, results, exc, inferring,
                   rpc, sent, enqueued, dropped, nreq, clock, nev>>

\* the transport of c closes and disconnect(sid) starts
DisconnectStart(c) ==
    /\ conn[c] = "open"
    /\ hpc[c] = "idle"
    /\ conn' = [conn EXCEPT ![c] = "closed"]
    /\ hpc' = [hpc EXCEPT ![c] = "dc_lock"]
    /\ UNCHANGED <<detector, maxsize, queue, unfinished_tasks, active_sessions,
                   session_lock, rooms, hloc, wpc, job, results, exc, inferring,
                   rpc, sent, enqueued, dropped, nreq, clock, nev>>

\* a disconnect that also cancels the queued jobs of the session it removes
DisconnectRemovePurging(c) ==
    /\ hpc[c] = "dc_lock"
    /\ session_lock = Free
    /\ active_sessions' = RemoveBySid(active_sessions, c)
    /\ queue' = SelectSeq(queue, LAMBDA j :
                    j.session_id \in Keys(RemoveBySid(active_sessions, c)))
    /\ rooms' = [s \in SessionIds |-> rooms[s] \ {c}]
    /\ hpc' = [hpc EXCEPT ![c] = "idle"]
    /\ UNCHANGED <<detector, maxsize, unfinished_tasks, session_lock, conn,
                   hloc, wpc, job, results, exc, inferring, rpc, sent, enqueued,
                   dropped, nreq, clock, nev>>

\* disconnect(sid): the with-block; afterwards Socket.IO takes the sid out of
\* every room
DisconnectRemove(c) ==
    /\ hpc[c] = "dc_lock"
    /\ session_lock = Free
    /\ active_sessions' = RemoveBySid(active_sessions, c)
    /\ rooms' = [s \in SessionIds |-> rooms[s] \ {c}]
    /\ hpc' = [hpc EXCEPT ![c] = "idle"]
    /\ UNCHANGED <<detector, maxsize, queue, unfinished_tasks, session_lock, conn,
                   hloc, wpc, job, results, exc, inferring, rpc, sent, enqueued,
                   dropped, nreq, clock, nev>>

\* ------------------------------------------------ join_detection_session
\* the handler up to the with-block: the check of data.get('session_id')
JoinStart(c, s) ==
    /\ conn[c] = "open"
    /\ hpc[c] = "idle"
    /\ clock' = clock + 1
    /\ nev' = nev + 1
    /\ IF s = None
       THEN /\ sent' = Emit("error", ErrorData("Session ID required"), c, c, 0)
            /\ UNCHANGED <<hpc, hloc>>
       ELSE /\ hpc' = [hpc EXCEPT ![c] = "join_lock"]
            /\ hloc' = [hloc EXCEPT ![c] = [NoLocals EXCEPT !.session_id = s]]
            /\ UNCHANGED sent
    /\ UNCHANGED <<detector, maxsize, queue, unfinished_tasks, active_sessions,
                   session_lock, conn, rooms, wpc, job, results, exc, inferring,
                   rpc, enqueued, dropped, nreq>>

\* with session_lock: active_sessions[session_id] = {...}
JoinRegister(c) ==
    /\ hpc[c] = "join_lock"
    /\ session_lock = Free
    /\ active_sessions' = SetItem(active_sessions, hloc[c].session_id, c, clock)
    /\ hpc' = [hpc EXCEPT ![c] = "join_room"]
    /\ UNCHANGED <<detector, maxsize, queue, unfinished_tasks, session_lock, conn,
                   rooms, hloc, wpc, job, results, exc, inferring, rpc, sent,
                   enqueued, dropped, nreq, clock, nev>>

\* sio.enter_room(sid, session_id); sio.emit('joined_session', ..., room=sid)
JoinEnterRoom(c) ==
    /\ hpc[c] = "join_room"
    /\ rooms' = [rooms EXCEPT ![hloc[c].session_id] = @ \cup {c}]
    /\ sent' = Emit("joined_session",
                    [session_id |-> hloc[c].session_id, status |-> "ready"], c, c, 0)
    /\ hpc' = [hpc EXCEPT ![c] = "idle"]
    /\ hloc' = [hloc EXCEPT ![c] = NoLocals]
    /\ UNCHANGED <<detector, maxsize, queue, unfinished_tasks, active_sessions,
                   session_lock, conn, wpc, job, results, exc, inferring, rpc,
                   enqueued, dropped, nreq, clock, nev>>

\* ---------------------------------------------------------- process_frame
\* timestamp = data.get('timestamp', time.time()); ts is the set of the
\* values of the field: empty when data has no timestamp
Timestamp(ts) == IF ts = {} THEN clock ELSE CHOOSE x \in ts : TRUE

\* the handler up to the with-block: the detector check and the validation
\* of the fields session_id (s), image (img) and timestamp (ts) of data
ProcessFrameStart(c, s, img, ts) ==
    /\ conn[c] = "open"
    /\ hpc[c] = "idle"
    /\ nreq' = nreq + 1
    /\ nev' = nev + 1
    /\ IF detector = None
       THEN /\ sent' = Emit("error", ErrorData("Detector not initialized"), c, c,
                            Timestamp(ts))
            /\ UNCHANGED <<hpc, hloc>>
       ELSE IF s = None \/ img = None
       THEN /\ sent' = Emit("error", ErrorData("Session ID and image data required"),
                            c, c, Timestamp(ts))
            /\ UNCHANGED <<hpc, hloc>>
       ELSE /\ hpc' = [hpc EXCEPT ![c] = "pf_lock"]
            /\ hloc' = [hloc EXCEPT ![c] =
                          [session_id |-> s, image |-> img, timestamp |-> Timestamp(ts)]]
            /\ UNCHANGED sent
    /\ UNCHANGED <<detector, maxsize, queue, unfinished_tasks, active_sessions,
                   session_lock, conn, rooms, wpc, job, results, exc, inferring,
                   rpc, enqueued, dropped, clock>>

\* with session_lock: the membership check; a known session gets its
\* frame_count incremented and the lock is released, an unknown one leaves
\* the handler holding the lock at its sio.emit
ProcessFrameLock(c) ==
    /\ hpc[c] = "pf_lock"
    /\ session_lock = Free
    /\ IF hloc[c].session_id \notin Keys(active_sessions)
       THEN /\ session_lock' = c
            /\ hpc' = [hpc EXCEPT ![c] = "pf_emit_notfound"]
            /\ UNCHANGED active_sessions
       ELSE /\ active_sessions' = IncFrameCount(active_sessions, hloc[c].session_id)
            /\ hpc' = [hpc EXCEPT ![c] = "pf_put"]
            /\ UNCHANGED session_lock
    /\ UNCHANGED <<detector, maxsize, queue, unfinished_tasks, conn, rooms, hloc,
                   wpc, job, results, exc, inferring, rpc, sent, enqueued, dropped,
                   nreq, clock, nev>>

\* an error path that returns without releasing the lock
ProcessFrameNotFoundKeepsLock(c) ==
    /\ hpc[c] = "pf_emit_notfound"
    /\ sent' = Emit("error", ErrorData("Session not found"), c, c, hloc[c].timestamp)
    /\ hpc' = [hpc EXCEPT ![c] = "idle"]
    /\ hloc' = [hloc EXCEPT ![c] = NoLocals]
    /\ UNCHANGED <<detector, maxsize, queue, unfinished_tasks, active_sessions, conn,
                   rooms, wpc, job, results, exc, inferring, rpc, enqueued, dropped,
                   nreq, clock, nev, session_lock>>

\* sio.emit('error', {'message': 'Session not found'}, room=sid); return
ProcessFrameNotFound(c) ==
    /\ hpc[c] = "pf_emit_notfound"
    /\ sent' = Emit("error", ErrorData("Session not found"), c, c, hloc[c].timestamp)
    /\ session_lock' = Free
    /\ hpc' = [hpc EXCEPT ![c] = "idle"]
    /\ hloc' = [hloc EXCEPT ![c] = NoLocals]
    /\ UNCHANGED <<detector, maxsize, queue, unfinished_tasks, active_sessions, conn,
                   rooms, wpc, job, results, exc, inferring, rpc, enqueued, dropped,
                   nreq, clock, nev>>

\* a queue that takes one item more than maxsize
FullOffByOne(q) == Len(q) > maxsize

\* a queue built without maxsize: it is never full
NeverFull(q) == FALSE

\* detection_queue.full(), which makes put_nowait raise queue.Full
Full(q) == Len(q) >= maxsize

\* a queue that hands out its newest item first
PutFront(q, item) == <<item>> \o q

\* detection_queue.put_nowait(item) on a queue that is not full
PutNowait(q, item) == Append(q, item)

\* a handler that takes its count back when put_nowait refuses the frame
ProcessFramePutUncounting(c) ==
    /\ hpc[c] = "pf_put"
    /\ IF ~Full(queue)
       THEN /\ queue' = PutNowait(queue, [session_id |-> hloc[c].session_id,
                                          image |-> hloc[c].image,
                                          timestamp |-> hloc[c].timestamp])
            /\ unfinished_tasks' = unfinished_tasks + 1
            /\ enqueued' = Append(enqueued, hloc[c].timestamp)
            /\ UNCHANGED <<sent, active_sessions>>
       ELSE /\ sent' = Emit("detection_results",
                            QueueFullData(hloc[c].session_id, hloc[c].timestamp),
                            c, c, hloc[c].timestamp)
            /\ active_sessions' =
                  [active_sessions EXCEPT
                      ![IndexOf(active_sessions, hloc[c].session_id)].frame_count = @ - 1]
            /\ UNCHANGED <<queue, unfinished_tasks, enqueued>>
    /\ hpc' = [hpc EXCEPT ![c] = "idle"]
    /\ hloc' = [hloc EXCEPT ![c] = NoLocals]
    /\ UNCHANGED <<detector, maxsize, session_lock, conn, rooms,
                   wpc, job, results, exc, inferring, rpc, dropped, nreq, clock,
                   nev>>

\* the try block around put_nowait and its except queue.Full
ProcessFramePut(c) ==
    /\ hpc[c] = "pf_put"
    /\ IF ~Full(queue)
       THEN /\ queue' = PutNowait(queue, [session_id |-> hloc[c].session_id,
                                          image |-> hloc[c].image,
                                          timestamp |-> hloc[c].timestamp])
            /\ unfinished_tasks' = unfinished_tasks + 1
            /\ enqueued' = Append(enqueued, hloc[c].timestamp)
            /\ UNCHANGED sent
       ELSE /\ sent' = Emit("detection_results",
                            QueueFullData(hloc[c].session_id, hloc[c].timestamp),
                            c, c, hloc[c].timestamp)
            /\ UNCHANGED <<queue, unfinished_tasks, enqueued>>
    /\ hpc' = [hpc EXCEPT ![c] = "idle"]
    /\ hloc' = [hloc EXCEPT ![c] = NoLocals]
    /\ UNCHANGED <<detector, maxsize, active_sessions, session_lock, conn, rooms,
                   wpc, job, results, exc, inferring, rpc, dropped, nreq, clock,
                   nev>>

\* ------------------------------------------------------ get_session_stats
\* session_id = data.get('session_id'); with session_lock:
GetStatsLock(c, s) ==
    /\ conn[c] = "open"
    /\ hpc[c] = "idle"
    /\ session_lock = Free
    /\ session_lock' = c
    /\ nev' = nev + 1
    /\ hpc' = [hpc EXCEPT ![c] = "gs_emit"]
    /\ hloc' = [hloc EXCEPT ![c] = [NoLocals EXCEPT !.session_id = s]]
    /\ UNCHANGED <<detector, maxsize, queue, unfinished_tasks, active_sessions, conn,
                   rooms, wpc, job, results, exc, inferring, rpc, sent, enqueued,
                   dropped, nreq, clock>>

SessionStats(s) ==
    LET session_info == Lookup(active_sessions, s)
    IN [session_id |-> s,
        uptime |-> clock - session_info.joined_at,
        frame_count |-> session_info.frame_count,
        last_detection |-> session_info.last_detection,
        queue_size |-> Len(queue),
        active_sessions |-> Len(active_sessions)]

\* the body of the with-block: both of its emits happen under the lock
GetStatsEmit(c) ==
    /\ hpc[c] = "gs_emit"
    /\ IF hloc[c].session_id \notin Keys(active_sessions)
       THEN sent' = Emit("error", ErrorData("Session not found"), c, c, 0)
       ELSE sent' = Emit("session_stats", SessionStats(hloc[c].session_id), c, c, 0)
    /\ session_lock' = Free
    /\ hpc' = [hpc EXCEPT ![c] = "idle"]
    /\ hloc' = [hloc EXCEPT ![c] = NoLocals]
    /\ UNCHANGED <<detector, maxsize, queue, unfinished_tasks, active_sessions, conn,
                   rooms, wpc, job, results, exc, inferring, rpc, enqueued, dropped,
                   nreq, clock, nev>>

\* ---------------------------------------------------------- POST /detect
\* detect_objects_api up to the call of detector.detect_objects
RestDetectStart(img) ==
    /\ rpc = "idle"
    /\ nev' = nev + 1
    /\ IF detector = None \/ img = None
       THEN UNCHANGED <<rpc, inferring>>
       ELSE /\ rpc' = "detecting"
            /\ inferring' = inferring \cup {Rest}
    /\ UNCHANGED <<detector, maxsize, queue, unfinished_tasks, active_sessions,
                   session_lock, conn, rooms, hpc, hloc, wpc, job, results, exc,
                   sent, enqueued, dropped, nreq, clock>>

\* detect_objects returns or raises; the response goes to the HTTP client
RestDetectReturn ==
    /\ rpc = "detecting"
    /\ rpc' = "idle"
    /\ inferring' = inferring \ {Rest}
    /\ UNCHANGED <<detector, maxsize, queue, unfinished_tasks, active_sessions,
                   session_lock, conn, rooms, hpc, hloc, wpc, job, results, exc,
                   sent, enqueued, dropped, nreq, clock, nev>>

\* ------------------------------------------------------- detection_worker
\* detection_queue.get(timeout=1) on a queue that holds a job (on an empty
\* queue it raises queue.Empty and the loop continues: no change of state)
WorkerGet ==
    /\ wpc = "get"
    /\ queue # <<>>
    /\ job' = Head(queue)
    /\ queue' = Tail(queue)
    /\ wpc' = IF detector = None THEN "get" ELSE "detect"
    /\ UNCHANGED <<detector, maxsize, unfinished_tasks, active_sessions, session_lock,
                   conn, rooms, hpc, hloc, results, exc, inferring, rpc, sent,
                   enqueued, dropped, nreq, clock, nev>>

\* the worker enters detector.detect_objects(image_data)
WorkerDetectStart ==
    /\ wpc = "detect"
    /\ wpc' = "detecting"
    /\ inferring' = inferring \cup {Worker}
    /\ UNCHANGED <<detector, maxsize, queue, unfinished_tasks, active_sessions,
                   session_lock, conn, rooms, hpc, hloc, job, results, exc, rpc,
                   sent, enqueued, dropped, nreq, clock, nev>>

\* detect_objects returns its dictionary or raises (b64decode / Image.open on
\* a corrupt payload, or the model call); the metadata is added to a result
WorkerDetectEnd(outcome) ==
    /\ wpc = "detecting"
    /\ inferring' = inferring \ {Worker}
    /\ IF job.image = "corrupt"
       THEN /\ exc' = "decode_error"
            /\ wpc' = "except"
            /\ UNCHANGED results
       ELSE IF outcome = "inference_error"
       THEN /\ exc' = "inference_error"
            /\ wpc' = "except"
            /\ UNCHANGED results
       ELSE /\ results' = DetectResult(job.image)
            /\ wpc' = "lock"
            /\ UNCHANGED exc
    /\ UNCHANGED <<detector, maxsize, queue, unfinished_tasks, active_sessions,
                   session_lock, conn, rooms, hpc, hloc, job, rpc, sent, enqueued,
                   dropped, nreq, clock, nev>>

\* results with results['session_id'] and results['timestamp'] set
WithMetadata(r, j) ==
    [detections |-> r.detections, detection_count |-> r.detection_count,
     processing_time |-> r.processing_time, fps |-> r.fps,
     session_id |-> j.session_id, timestamp |-> j.timestamp]

\* a publisher that does not check the registry
AlwaysRegistered(d, k) == TRUE

\* if session_id in active_sessions
Registered(d, k) == k \in Keys(d)

\* with session_lock: the membership check; an unknown session leaves the
\* with-block at once, a known one has the worker at sio.emit under the lock
WorkerLock ==
    /\ wpc = "lock"
    /\ session_lock = Free
    /\ IF Registered(active_sessions, job.session_id)
       THEN /\ session_lock' = Worker
            /\ wpc' = "emit"
            /\ UNCHANGED dropped
       ELSE /\ wpc' = "task_done"
            /\ dropped' = dropped \cup {job.timestamp}
            /\ UNCHANGED session_lock
    /\ UNCHANGED <<detector, maxsize, queue, unfinished_tasks, active_sessions, conn,
                   rooms, hpc, hloc, job, results, exc, inferring, rpc, sent,
                   enqueued, nreq, clock, nev>>

\* a worker that takes and frees the lock by hand: an emit that raises skips
\* the release
WorkerEmitLeaking(eo) ==
    /\ wpc = "emit"
    /\ IF eo = "sent"
       THEN /\ sent' = Emit("detection_results", WithMetadata(results, job),
                            job.session_id, Worker, job.timestamp)
            /\ session_lock' = Free
            /\ wpc' = "task_done"
            /\ UNCHANGED exc
       ELSE /\ exc' = "emit_error"
            /\ wpc' = "except"
            /\ UNCHANGED <<sent, session_lock>>
    /\ UNCHANGED <<detector, maxsize, queue, unfinished_tasks, active_sessions, conn,
                   rooms, hpc, hloc, job, results, inferring, rpc, enqueued, dropped,
                   nreq, clock, nev>>

\* a worker that counts the result it publishes in the entry of the session
WorkerEmitCounting(eo) ==
    /\ wpc = "emit"
    /\ session_lock' = Free
    /\ IF eo = "sent"
       THEN /\ sent' = Emit("detection_results", WithMetadata(results, job),
                            job.session_id, Worker, job.timestamp)
            /\ active_sessions' = IncFrameCount(active_sessions, job.session_id)
            /\ wpc' = "task_done"
            /\ UNCHANGED exc
       ELSE /\ exc' = "emit_error"
            /\ wpc' = "except"
            /\ UNCHANGED <<sent, active_sessions>>
    /\ UNCHANGED <<detector, maxsize, queue, unfinished_tasks, conn,
                   rooms, hpc, hloc, job, results, inferring, rpc, enqueued, dropped,
                   nreq, clock, nev>>

\* sio.emit('detection_results', results, room=session_id), which may raise;
\* leaving the with-block releases the lock either way
WorkerEmit(eo) ==
    /\ wpc = "emit"
    /\ session_lock' = Free
    /\ IF eo = "sent"
       THEN /\ sent' = Emit("detection_results", WithMetadata(results, job),
                            job.session_id, Worker, job.timestamp)
            /\ wpc' = "task_done"
            /\ UNCHANGED exc
       ELSE /\ exc' = "emit_error"
            /\ wpc' = "except"
            /\ UNCHANGED sent
    /\ UNCHANGED <<detector, maxsize, queue, unfinished_tasks, active_sessions, conn,
                   rooms, hpc, hloc, job, results, inferring, rpc, enqueued, dropped,
                   nreq, clock, nev>>

\* Queue.task_done raises ValueError when called more often than put
TaskDoneRaises == unfinished_tasks - 1 < 0

\* detection_queue.task_done() at the end of the try block
WorkerTaskDone ==
    /\ wpc = "task_done"
    /\ IF TaskDoneRaises
       THEN /\ exc' = "ValueError"
            /\ wpc' = "except"
            /\ UNCHANGED <<unfinished_tasks, job, results>>
       ELSE /\ unfinished_tasks' = unfinished_tasks - 1
            /\ wpc' = "get"
            /\ job' = NoJob
            /\ results' = NoResults
            /\ UNCHANGED exc
    /\ UNCHANGED <<detector, maxsize, queue, active_sessions, session_lock, conn,
                   rooms, hpc, hloc, inferring, rpc, sent, enqueued, dropped, nreq,
                   clock, nev>>

\* a worker without the except clause: the exception ends the thread
WorkerExceptUncaught ==
    /\ wpc = "except"
    /\ wpc' = "dead"
    /\ UNCHANGED <<detector, maxsize, queue, unfinished_tasks, active_sessions,
                   session_lock, conn, rooms, hpc, hloc, job, results, exc, inferring,
                   rpc, sent, enqueued, dropped, nreq, clock, nev>>

\* except Exception: print; task_done() if the queue is not empty.  An
\* exception raised here leaves the while loop: the thread ends.
WorkerExcept ==
    /\ wpc = "except"
    /\ IF queue # <<>> /\ TaskDoneRaises
       THEN /\ wpc' = "dead"
            /\ UNCHANGED <<unfinished_tasks, job, results, exc>>
       ELSE /\ unfinished_tasks' = IF queue # <<>> THEN unfinished_tasks - 1
                                                   ELSE unfinished_tasks
            /\ wpc' = "get"
            /\ job' = NoJob
            /\ results' = NoResults
            /\ exc' = None
    /\ UNCHANGED <<detector, maxsize, queue, active_sessions, session_lock, conn,
                   rooms, hpc, hloc, inferring, rpc, sent, enqueued, dropped, nreq,
                   clock, nev>>

\* ------------------------------------------------------- specifications
\* Every inbound event gets a task of its own (one at a time for each sid
\* here); the tasks of different sids, the /detect view and the thread of
\* detection_worker interleave at every step.
\* the frames the clients send: a valid frame of either kind for either
\* session, a frame without session_id, a frame without image.  The clients
\* stamp their frames with the number of the request.  A client that closes
\* its transport does so before the last of the requests.
FrameInputs ==
    (SessionIds \X Images) \cup {<<None, "person">>, <<"s1", None>>}

Next ==
    \/ \E c \in SIDs : Connect(c)
    \/ \E c \in SIDs : nev < MaxEvents /\ DisconnectStart(c)
    \/ \E c \in SIDs : DisconnectRemove(c)
    \/ \E c \in SIDs, s \in SessionIds \cup {None} :
          nev < MaxEvents /\ JoinStart(c, s)
    \/ \E c \in SIDs : JoinRegister(c)
    \/ \E c \in SIDs : JoinEnterRoom(c)
    \/ \E c \in SIDs, f \in FrameInputs :
          nev < MaxEvents /\ ProcessFrameStart(c, f[1], f[2], {nreq + 1})
    \/ \E c \in SIDs : ProcessFrameLock(c)
    \/ \E c \in SIDs : ProcessFrameNotFound(c)
    \/ \E c \in SIDs : ProcessFramePut(c)
    \/ \E c \in SIDs, s \in SessionIds :
          nev < MaxEvents /\ GetStatsLock(c, s)
    \/ \E c \in SIDs : GetStatsEmit(c)
    \/ \E img \in Images \cup {None} :
          nev < MaxEvents /\ RestDetectStart(img)
    \/ RestDetectReturn
    \/ WorkerGet
    \/ WorkerDetectStart
    \/ \E o \in Outcomes : WorkerDetectEnd(o)
    \/ WorkerLock
    \/ \E eo \in EmitOutcomes : WorkerEmit(eo)
    \/ WorkerTaskDone
    \/ WorkerExcept

Spec == Init /\ [][Next]_vars

\* the steps of detection_worker
WorkerStep ==
    \/ WorkerGet
    \/ WorkerDetectStart
    \/ \E o \in Outcomes : WorkerDetectEnd(o)
    \/ WorkerLock
    \/ \E eo \in EmitOutcomes : WorkerEmit(eo)
    \/ WorkerTaskDone
    \/ WorkerExcept

\* the steps of a handler of c that has started, and of the /detect view
HandlerStep(c) ==
    \/ DisconnectRemove(c)
    \/ JoinRegister(c)
    \/ JoinEnterRoom(c)
    \/ ProcessFrameLock(c)
    \/ ProcessFrameNotFound(c)
    \/ ProcessFramePut(c)
    \/ GetStatsEmit(c)
    \/ RestDetectReturn

\* One client joins, sends frames of its session, asks for its statistics and
\* disconnects; every outcome of a job happens
NextDrain ==
    \/ Connect("A")
    \/ DisconnectStart("A")
    \/ DisconnectRemove("A")
    \/ nev < MaxDrainEvents /\ JoinStart("A", "s1")
    \/ JoinRegister("A")
    \/ JoinEnterRoom("A")
    \/ \E img \in Images :
          nev < MaxDrainEvents /\ ProcessFrameStart("A", "s1", img, {nreq + 1})
    \/ ProcessFrameLock("A")
    \/ ProcessFrameNotFound("A")
    \/ ProcessFramePut("A")
    \/ nev < MaxDrainEvents /\ GetStatsLock("A", "s1")
    \/ GetStatsEmit("A")
    \/ WorkerGet
    \/ WorkerDetectStart
    \/ \E o \in Outcomes : WorkerDetectEnd(o)
    \/ WorkerLock
    \/ \E eo \in EmitOutcomes : WorkerEmit(eo)
    \/ WorkerTaskDone
    \/ WorkerExcept

\* NextDrain with the scheduling the threads get: the worker thread is not
\* starved and a handler that has started runs on
FairSpec ==
    /\ Init
    /\ [][NextDrain]_vars
    /\ WF_vars(WorkerStep)
    /\ \A c \in SIDs : WF_vars(HandlerStep(c))

\* Frames of two sessions of one client, decodable or corrupt, and the worker:
\* more requests than Spec allows, from fewer kinds of request
NextOrder ==
    \/ Connect("A")
    \/ \E s \in SessionIds :
          nev < MaxOrderEvents /\ JoinStart("A", s)
    \/ JoinRegister("A")
    \/ JoinEnterRoom("A")
    \/ \E s \in SessionIds, img \in Images :
          nev < MaxOrderEvents /\ ProcessFrameStart("A", s, img, {nreq + 1})
    \/ ProcessFrameLock("A")
    \/ ProcessFrameNotFound("A")
    \/ ProcessFramePut("A")
    \/ WorkerGet
    \/ WorkerDetectStart
    \/ WorkerDetectEnd("ok")
    \/ WorkerLock
    \/ WorkerEmit("sent")
    \/ WorkerTaskDone
    \/ WorkerExcept

SpecOrder == Init /\ [][NextOrder]_vars

\* Load: A joins the session once; once it is registered, two clients send
\* decodable frames of it, without a timestamp field, faster than the worker
\* takes them, so that two put_nowait race for the last place in the queue.
NextLoad ==
    \/ \E c \in SIDs : Connect(c)
    \/ /\ nev < MaxLoadEvents
       /\ "s1" \notin Keys(active_sessions)
       /\ JoinStart("A", "s1")
    \/ JoinRegister("A")
    \/ JoinEnterRoom("A")
    \/ \E c \in SIDs :
          /\ nev < MaxLoadEvents
          /\ "s1" \in Keys(active_sessions)
          /\ ProcessFrameStart(c, "s1", "person", {})
    \/ \E c \in SIDs : ProcessFrameLock(c)
    \/ \E c \in SIDs : ProcessFramePut(c)
    \/ WorkerGet
    \/ WorkerDetectStart
    \/ WorkerDetectEnd("ok")
    \/ WorkerLock
    \/ WorkerEmit("sent")
    \/ WorkerTaskDone

SpecLoad == Init /\ [][NextLoad]_vars

\* The service started with a queue of capacity 1: Init with
\* queue.Queue(maxsize=1)
InitCapacityOne ==
    /\ detector = "YOLODetector"
    /\ maxsize = 1
    /\ queue = <<>>
    /\ unfinished_tasks = 0
    /\ active_sessions = <<>>
    /\ session_lock = Free
    /\ conn = [c \in SIDs |-> "new"]
    /\ rooms = [s \in SessionIds |-> {}]
    /\ hpc = [c \in SIDs |-> "idle"]
    /\ hloc = [c \in SIDs |-> NoLocals]
    /\ wpc = "get"
    /\ job = NoJob
    /\ results = NoResults
    /\ exc = None
    /\ inferring = {}
    /\ rpc = "idle"
    /\ sent = <<>>
    /\ enqueued = <<>>
    /\ dropped = {}
    /\ nreq = 0
    /\ clock = 0
    /\ nev = 0

\* the three frames of the burst were submitted and their handlers are back
BurstHandled ==
    /\ nreq = 3
    /\ \A c \in SIDs : hpc[c] = "idle"

\* Burst: A joins s1 once; then three decodable frames of s1 are sent, each
\* by A or by B; the detector is slow: the first call of detect_objects
\* returns, with a result, after the third handler is back
NextBurst ==
    \/ \E c \in SIDs : Connect(c)
    \/ "s1" \notin Keys(active_sessions) /\ JoinStart("A", "s1")
    \/ JoinRegister("A")
    \/ JoinEnterRoom("A")
    \/ \E c \in SIDs :
          /\ nreq < 3
          /\ "s1" \in Keys(active_sessions)
          /\ ProcessFrameStart(c, "s1", "person", {nreq + 1})
    \/ \E c \in SIDs : ProcessFrameLock(c)
    \/ \E c \in SIDs : ProcessFramePut(c)
    \/ WorkerGet
    \/ WorkerDetectStart
    \/ BurstHandled /\ WorkerDetectEnd("ok")
    \/ WorkerLock
    \/ WorkerEmit("sent")
    \/ WorkerTaskDone

SpecBurst == InitCapacityOne /\ [][NextBurst]_vars

\* Contention for session_lock: A joins s1; A and B send decodable frames of
\* it (before the join too: the error path), ask for its statistics and
\* disconnect, while the worker publishes, with an emit that may raise
NextLock ==
    \/ \E c \in SIDs : Connect(c)
    \/ \E c \in SIDs : DisconnectStart(c)
    \/ \E c \in SIDs : DisconnectRemove(c)
    \/ nev < MaxLockEvents /\ JoinStart("A", "s1")
    \/ JoinRegister("A")
    \/ JoinEnterRoom("A")
    \/ \E c \in SIDs :
          nev < MaxLockEvents /\ ProcessFrameStart(c, "s1", "person", {})
    \/ \E c \in SIDs : ProcessFrameLock(c)
    \/ \E c \in SIDs : ProcessFrameNotFound(c)
    \/ \E c \in SIDs : ProcessFramePut(c)
    \/ \E c \in SIDs : nev < MaxLockEvents /\ GetStatsLock(c, "s1")
    \/ \E c \in SIDs : GetStatsEmit(c)
    \/ WorkerGet
    \/ WorkerDetectStart
    \/ WorkerDetectEnd("ok")
    \/ WorkerLock
    \/ \E eo \in EmitOutcomes : WorkerEmit(eo)
    \/ WorkerTaskDone
    \/ WorkerExcept

\* NextLock with the scheduling the threads get: a thread that can take
\* a step is not starved
FairLockSpec ==
    /\ Init
    /\ [][NextLock]_vars
    /\ WF_vars(WorkerStep)
    /\ \A c \in SIDs : WF_vars(HandlerStep(c))

\* Removal under load: A joins s1 once and sends decodable frames of it,
\* without a timestamp field, faster than the worker takes them; A
\* disconnects with its jobs still queued; then B joins s2 once and sends
\* frames of s2
NextRemoval ==
    \/ \E c \in SIDs : Connect(c)
    \/ DisconnectStart("A")
    \/ DisconnectRemove("A")
    \/ /\ nev < MaxRemovalEvents
       /\ "s1" \notin Keys(active_sessions)
       /\ JoinStart("A", "s1")
    \/ /\ nev < MaxRemovalEvents
       /\ "s2" \notin Keys(active_sessions)
       /\ conn["A"] = "closed"
       /\ JoinStart("B", "s2")
    \/ \E c \in SIDs : JoinRegister(c)
    \/ \E c \in SIDs : JoinEnterRoom(c)
    \/ /\ nev < MaxRemovalEvents
       /\ "s1" \in Keys(active_sessions)
       /\ ProcessFrameStart("A", "s1", "person", {})
    \/ /\ nev < MaxRemovalEvents
       /\ "s2" \in Keys(active_sessions)
       /\ ProcessFrameStart("B", "s2", "person", {})
    \/ \E c \in SIDs : ProcessFrameLock(c)
    \/ \E c \in SIDs : ProcessFramePut(c)
    \/ WorkerGet
    \/ WorkerDetectStart
    \/ WorkerDetectEnd("ok")
    \/ WorkerLock
    \/ WorkerEmit("sent")
    \/ WorkerTaskDone

SpecRemoval == Init /\ [][NextRemoval]_vars

\* =================================================================== claims
\* the messages the worker published
WorkerMessages == {i \in 1..Len(sent) : sent[i].src = Worker}

\* the messages process_frame sent on queue.Full
QueueFullMessages ==
    {i \in 1..Len(sent) : sent[i].src \in SIDs /\ sent[i].event = "detection_results"}

\* the place of a timestamp in the order of the accepted put_nowait calls
EnqueuePos(ts) == CHOOSE k \in 1..Len(enqueued) : enqueued[k] = ts

\* C1: the results the worker publishes for one session are emitted, and so
\* delivered to every sid that gets them, in the order in which the frames of
\* that session were enqueued
C1_ResultsInEnqueueOrder ==
    \A i \in WorkerMessages, j \in WorkerMessages :
        (i < j /\ sent[i].data.session_id = sent[j].data.session_id)
            => EnqueuePos(sent[i].data.timestamp) < EnqueuePos(sent[j].data.timestamp)

\* two results of s1 delivered to A with a result of s2 between them
C1_Witness ==
    \E i \in WorkerMessages, k \in WorkerMessages, j \in WorkerMessages :
        /\ i < k /\ k < j
        /\ sent[i].data.session_id = "s1" /\ sent[j].data.session_id = "s1"
        /\ sent[k].data.session_id = "s2"
        /\ "A" \in sent[i].to /\ "A" \in sent[j].to /\ "A" \in sent[k].to

\* C2: the number of pending jobs is between 0 and the capacity 10
C2_QueueBounded ==
    /\ maxsize = QueueMaxsize
    /\ Len(queue) >= 0
    /\ Len(queue) <= QueueMaxsize

\* the queue is full while both clients are about to call put_nowait
C2_Witness ==
    /\ Len(queue) = QueueMaxsize
    /\ \A c \in SIDs : hpc[c] = "pf_put"

\* C3: process_frame at put_nowait with the queue full adds no job and sends
\* to the room of the caller's sid a detection_results with an error field,
\* no detections and zero timings, and returns; it never waits
C3_QueueFullReply ==
    /\ [][\A c \in SIDs :
            (hpc[c] = "pf_put" /\ hpc'[c] # "pf_put" /\ Len(queue) >= maxsize) =>
                /\ queue' = queue
                /\ hpc'[c] = "idle"
                /\ Len(sent') = Len(sent) + 1
                /\ LET m == sent'[Len(sent')]
                   IN /\ m.event = "detection_results"
                      /\ m.room = c
                      /\ m.data.session_id = hloc[c].session_id
                      /\ m.data.timestamp = hloc[c].timestamp
                      /\ m.data.error # None
                      /\ m.data.detections = <<>>
                      /\ m.data.processing_time = 0
                      /\ m.data.fps = 0]_vars
    /\ [](\A c \in SIDs : hpc[c] = "pf_put" => ENABLED ProcessFramePut(c))

\* B, which never joined the session, got a queue-full reply while the queue
\* still holds its ten jobs
C3_Witness ==
    /\ Len(queue) = QueueMaxsize
    /\ \E i \in QueueFullMessages : sent[i].room = "B" /\ sent[i].to = {"B"}

\* C4 (as claimed): at most one call of detect_objects is in progress
C4_OneInference == Cardinality(inferring) <= 1

\* C5 (as claimed): a result the worker publishes for a session, while no
\* handler is in progress, is delivered only to the sid the registry records
\* for that session
C5_DeliveredToOwnerOnly ==
    [][(wpc = "emit" /\ wpc' = "task_done" /\ \A c \in SIDs : hpc[c] = "idle") =>
          sent'[Len(sent')].to \subseteq {Lookup(active_sessions, job.session_id).sid}]_vars

\* C6: every dequeued job goes to the detector, whether or not its session
\* is registered; at its check of the registry, a worker whose job names a
\* session that is no longer registered emits nothing, raises nothing and
\* goes to task_done; task_done then takes it back to the dequeue step; a
\* result that was dropped is never emitted later
C6_DropUnregistered ==
    /\ [][(wpc = "get" /\ wpc' # "get") => (wpc' = "detect" /\ job' = Head(queue))]_vars
    /\ [][(wpc = "lock" /\ wpc' # "lock" /\ job.session_id \notin Keys(active_sessions)) =>
            (sent' = sent /\ exc' = None /\ wpc' = "task_done")]_vars
    /\ [][(wpc = "task_done" /\ wpc' # "task_done") => (wpc' = "get" /\ exc' = None)]_vars
    /\ [](\A ts \in dropped : \A i \in WorkerMessages : sent[i].data.timestamp # ts)

\* A joined and closed, the result of its frame was dropped and the worker is
\* back at the dequeue step
C6_Witness ==
    /\ dropped # {}
    /\ conn["A"] = "closed"
    /\ wpc = "get"
    /\ sent # <<>>

\* the requests of process_frame that are over: no handler, queue place or
\* worker holds them
Finished(r) ==
    /\ \A c \in SIDs : hloc[c].timestamp # r
    /\ \A k \in 1..Len(queue) : queue[k].timestamp # r
    /\ job.timestamp # r

\* the replies to request r: error events and detection_results
Replies(r) ==
    Cardinality({i \in 1..Len(sent) :
                   sent[i].req = r /\ sent[i].event \in {"error", "detection_results"}})

\* C7 (as claimed): a request that is over got exactly one reply, or none if
\* its result was dropped because its session had left the registry
C7_ExactlyOneReply ==
    \A r \in 1..nreq :
        Finished(r) => Replies(r) = (IF r \in dropped THEN 0 ELSE 1)

\* C8 (as claimed): when decode or inference raised and the session of the job
\* is registered, the worker has published an error-tagged result for the job
\* by the time it goes back to the dequeue step
C8_ErrorResultPublished ==
    [][(/\ wpc = "except"
        /\ exc \in {"decode_error", "inference_error"}
        /\ wpc' = "get"
        /\ job.session_id \in Keys(active_sessions)) =>
          \E i \in 1..Len(sent') :
              /\ sent'[i].src = Worker
              /\ sent'[i].data.session_id = job.session_id
              /\ sent'[i].data.timestamp = job.timestamp
              /\ sent'[i].data.detections = <<>>]_vars

\* C9: the worker thread never ends, and with the worker and the started
\* handlers scheduled it ends up waiting at the dequeue step on an empty
\* queue once the clients have stopped
C9_WorkerDrainsQueue ==
    /\ [](wpc # "dead")
    /\ <>[](queue = <<>> /\ wpc = "get")

\* a job raised, the queue was empty in the except clause, and the worker is
\* back at the dequeue step
C9_Witness ==
    /\ wpc = "get"
    /\ queue = <<>>
    /\ unfinished_tasks > 0
    /\ enqueued # <<>>

\* C10 (as claimed): nobody holds session_lock at a sio.emit or inside
\* detect_objects
C10_LockOnlyForMap ==
    /\ ~(session_lock = Worker /\ wpc = "emit")
    /\ \A c \in SIDs : ~(session_lock = c /\ hpc[c] \in {"pf_emit_notfound", "gs_emit"})
    /\ session_lock = Worker => Worker \notin inferring

\* C11 (as claimed): once the disconnect of a sid has been handled, the
\* registry holds no session whose sid it is, however many session ids the
\* sid joined before
C11_DisconnectRemovesAll ==
    \A c \in SIDs :
        (conn[c] = "closed" /\ hpc[c] = "idle") =>
            \A i \in 1..Len(active_sessions) : active_sessions[i].sid # c

\* C12: the step of join_detection_session that registers a session id the
\* registry already holds replaces the entry: its sid is the joining sid, its
\* frame_count 0, its joined_at the time of this join, its last_detection
\* null; the registry keeps its keys and every other entry stays as it was
C12_RejoinReplaces ==
    [][\A c \in SIDs :
         (/\ hpc[c] = "join_lock"
          /\ hpc'[c] = "join_room"
          /\ hloc[c].session_id \in Keys(active_sessions)) =>
            /\ Lookup(active_sessions', hloc[c].session_id) =
                  [session_id |-> hloc[c].session_id, sid |-> c, joined_at |-> clock,
                   frame_count |-> 0, last_detection |-> None]
            /\ Len(active_sessions') = Len(active_sessions)
            /\ \A i \in 1..Len(active_sessions) :
                  active_sessions[i].session_id # hloc[c].session_id =>
                      active_sessions'[i] = active_sessions[i]]_vars

\* A has just re-registered s1, which B had joined earlier and sent a frame
\* of; the entry is A's, with no frames, and younger than B's join
C12_Witness ==
    /\ hpc["A"] = "join_room"
    /\ hloc["A"].session_id = "s1"
    /\ "B" \in rooms["s1"]
    /\ enqueued # <<>>
    /\ "s1" \in Keys(active_sessions)
    /\ Lookup(active_sessions, "s1").sid = "A"
    /\ Lookup(active_sessions, "s1").frame_count = 0
    /\ Lookup(active_sessions, "s1").joined_at > 1

\* frame_count of a registered session
FrameCount(s) == Lookup(active_sessions, s).frame_count

\* the handlers that have counted their frame and not yet called put_nowait
AtPut == {c \in SIDs : hpc[c] = "pf_put"}

\* C13: for the session that joined once, as long as put_nowait has refused
\* none of its frames, frame_count is the number of its frames that were
\* enqueued plus the frames whose handler is between the count and
\* put_nowait (so the two are equal whenever no process_frame is in
\* progress), and frame_count never decreases
C13_FrameCountIsAccepted ==
    /\ []((("s1" \in Keys(active_sessions)) /\ QueueFullMessages = {}) =>
            FrameCount("s1") = Len(enqueued) + Cardinality(AtPut))
    /\ [][("s1" \in Keys(active_sessions) /\ "s1" \in Keys(active_sessions')) =>
            Lookup(active_sessions', "s1").frame_count >= FrameCount("s1")]_vars

\* three frames of s1 were accepted, none was refused and no handler is in
\* progress
C13_Witness ==
    /\ "s1" \in Keys(active_sessions)
    /\ FrameCount("s1") = 3
    /\ Len(enqueued) = 3
    /\ QueueFullMessages = {}
    /\ \A c \in SIDs : hpc[c] = "idle"

\* the three frames of the burst were submitted and every one of them is
\* over: the handlers are back, the queue is drained and the worker waits
BurstDone ==
    /\ BurstHandled
    /\ queue = <<>>
    /\ wpc = "get"

LastSent == sent'[Len(sent')]

\* C15: a process_frame that lacks session_id or image ends in its first
\* step; that step sends one error event to the room of the caller's sid,
\* which nobody but the caller receives, and leaves the registry, the queue
\* and its count of unfinished tasks as they were, and enqueues nothing
C15_ValidationNoSideEffect ==
    [][(nreq' # nreq /\ hpc' = hpc) =>
          /\ Len(sent') = Len(sent) + 1
          /\ LastSent.event = "error"
          /\ LastSent.data = ErrorData("Session ID and image data required")
          /\ LastSent.room = LastSent.src
          /\ LastSent.src \in SIDs
          /\ LastSent.to = {LastSent.src}
          /\ active_sessions' = active_sessions
          /\ queue' = queue
          /\ unfinished_tasks' = unfinished_tasks
          /\ enqueued' = enqueued
          /\ session_lock' = session_lock]_vars

\* A got the validation error and B, connected, did not, while a session
\* with a counted frame is registered
C15_Witness ==
    /\ \E i \in 1..Len(sent) :
          /\ sent[i].event = "error"
          /\ sent[i].data = ErrorData("Session ID and image data required")
          /\ sent[i].to = {"A"}
    /\ conn["B"] = "open"
    /\ \E k \in 1..Len(active_sessions) : active_sessions[k].frame_count = 1

\* the 'Session not found' errors sent so far
NotFoundMessages ==
    {i \in 1..Len(sent) :
        sent[i].event = "error" /\ sent[i].data = ErrorData("Session not found")}

\* C16: process_frame and get_session_stats for a session id that is not
\* registered: the check of process_frame enqueues nothing and leaves the
\* registry as it was; the step after the check, in either handler, sends
\* one 'Session not found' error to the room of the caller's sid, which
\* nobody but the caller receives, leaves queue and registry as they were,
\* ends the handler and frees session_lock; the frame is never enqueued and
\* the worker thread does not end
C16_SessionNotFound ==
    /\ [][\A c \in SIDs :
            (/\ hpc[c] = "pf_lock" /\ hpc'[c] # "pf_lock"
             /\ hloc[c].session_id \notin Keys(active_sessions)) =>
                /\ hpc'[c] = "pf_emit_notfound"
                /\ queue' = queue /\ enqueued' = enqueued
                /\ active_sessions' = active_sessions]_vars
    /\ [][\A c \in SIDs :
            (\/ hpc[c] = "pf_emit_notfound" /\ hpc'[c] # hpc[c]
             \/ /\ hpc[c] = "gs_emit" /\ hpc'[c] # hpc[c]
                /\ hloc[c].session_id \notin Keys(active_sessions)) =>
                /\ Len(sent') = Len(sent) + 1
                /\ LastSent.event = "error"
                /\ LastSent.data = ErrorData("Session not found")
                /\ LastSent.room = c
                /\ LastSent.to \subseteq {c}
                /\ queue' = queue /\ enqueued' = enqueued
                /\ active_sessions' = active_sessions
                /\ hpc'[c] = "idle"
                /\ session_lock' = Free
                /\ wpc' # "dead"]_vars
    /\ [](\A i \in NotFoundMessages :
            sent[i].req > 0 => \A k \in 1..Len(enqueued) : enqueued[k] # sent[i].req)

\* a frame and a statistics request for unknown sessions were both answered
\* with the error, the handlers are back and the lock is free
C16_Witness ==
    /\ \E i \in NotFoundMessages : sent[i].req > 0 /\ sent[i].to = {sent[i].room}
    /\ \E i \in NotFoundMessages : sent[i].req = 0 /\ sent[i].to = {sent[i].room}
    /\ \A c \in SIDs : hpc[c] = "idle"
    /\ session_lock = Free
    /\ queue = <<>>

\* C17 (as claimed): when the worker has published a result for a registered
\* session, the entry of that session, from which get_session_stats takes
\* the last_detection it reports, holds a last_detection: it is null no longer
C17_LastDetectionRecorded ==
    [][(wpc = "emit" /\ wpc' = "task_done") =>
          Lookup(active_sessions', job.session_id).last_detection # None]_vars

\* C18 (as claimed): every detection_results sent to a client, a result of
\* the worker or the reply of process_frame on a full queue, has a
\* detection_count, which is the length of its detections
C18_DetectionCountIsLength ==
    \A i \in 1..Len(sent) :
        sent[i].event = "detection_results" =>
            /\ "detection_count" \in DOMAIN sent[i].data
            /\ sent[i].data.detection_count = Len(sent[i].data.detections)

\* the registry without the last_detection of its entries
RegistryCore(d) ==
    [i \in 1..Len(d) |->
        [session_id |-> d[i].session_id, sid |-> d[i].sid,
         joined_at |-> d[i].joined_at, frame_count |-> d[i].frame_count]]

\* C19: a step of detection_worker (one that moves the worker or changes its
\* job, its results or its exception) leaves the registered session ids and
\* the sid, joined_at and frame_count of every entry as they were; the
\* registry changes only in the step under the lock of a disconnect, a
\* join_detection_session or a process_frame handler
C19_WorkerLeavesRegistry ==
    /\ [][(wpc' # wpc \/ job' # job \/ results' # results \/ exc' # exc
              \/ (Worker \in inferring) # (Worker \in inferring')) =>
            RegistryCore(active_sessions') = RegistryCore(active_sessions)]_vars
    /\ [][active_sessions' # active_sessions =>
            \E c \in SIDs : /\ hpc[c] \in {"dc_lock", "join_lock", "pf_lock"}
                            /\ hpc'[c] # hpc[c]]_vars

\* the worker has just published a result of s1, whose entry still counts the
\* one frame that was received
C19_Witness ==
    /\ wpc = "task_done"
    /\ sent # <<>>
    /\ sent[Len(sent)].src = Worker
    /\ "s1" \in Keys(active_sessions)
    /\ FrameCount("s1") = 1

\* C20: frame_count of the registered session goes up by exactly one in the
\* step of a process_frame that has found the session under the lock, and
\* changes in no other step; put_nowait, accepted or refused, leaves it as
\* it is, so that it counts the frames enqueued, the frames refused on a
\* full queue and the frames about to be put
C20_CountsEveryCheckedFrame ==
    /\ []("s1" \in Keys(active_sessions) =>
            FrameCount("s1") = Len(enqueued) + Cardinality(QueueFullMessages)
                                             + Cardinality(AtPut))
    /\ [][\A c \in SIDs :
            (hpc[c] = "pf_lock" /\ hpc'[c] = "pf_put") =>
                Lookup(active_sessions', hloc[c].session_id).frame_count =
                    FrameCount(hloc[c].session_id) + 1]_vars
    /\ [][\A c \in SIDs :
            (hpc[c] = "pf_put" /\ hpc'[c] # "pf_put") =>
                /\ active_sessions' = active_sessions
                /\ Len(queue) >= maxsize => queue' = queue]_vars
    /\ [][("s1" \in Keys(active_sessions) /\ "s1" \in Keys(active_sessions')
             /\ Lookup(active_sessions', "s1").frame_count # FrameCount("s1")) =>
            \E c \in SIDs : hpc[c] = "pf_lock" /\ hpc'[c] = "pf_put"]_vars

\* the eleventh frame was refused on the full queue and is counted all the
\* same: ten jobs were enqueued, frame_count is 11
C20_Witness ==
    /\ "s1" \in Keys(active_sessions)
    /\ Len(enqueued) = QueueMaxsize
    /\ Cardinality(QueueFullMessages) = 1
    /\ FrameCount("s1") = QueueMaxsize + 1
    /\ \A c \in SIDs : hpc[c] = "idle"

\* the handler of c is at a with session_lock it has not entered yet
Waiting(c) == hpc[c] \in {"dc_lock", "join_lock", "pf_lock"}

\* C21: whoever holds session_lock is inside its with-block, so not at an
\* acquisition, and whoever has left its with-block, by return or by an
\* exception of sio.emit, holds it no longer; with the threads scheduled
\* fairly the lock is always freed again, and every handler and the worker
\* waiting for it get past the acquisition
C21_NoLockDeadlock ==
    /\ [](session_lock \in {Free, Worker} \cup SIDs)
    /\ [](session_lock = Worker => wpc = "emit")
    /\ [](\A c \in SIDs :
            session_lock = c => hpc[c] \in {"pf_emit_notfound", "gs_emit"})
    /\ (session_lock # Free) ~> (session_lock = Free)
    /\ (wpc = "lock") ~> (wpc # "lock")
    /\ \A c \in SIDs : Waiting(c) ~> ~Waiting(c)

\* A holds the lock at the emit of get_session_stats while the worker, with
\* a result to publish, and the disconnect of B wait for it
C21_Witness ==
    /\ session_lock = "A"
    /\ hpc["A"] = "gs_emit"
    /\ wpc = "lock"
    /\ hpc["B"] = "dc_lock"

\* the queued jobs of sessions that are not registered
OrphanJobs == {k \in 1..Len(queue) : queue[k].session_id \notin Keys(active_sessions)}

\* C22: the steps of a disconnect leave the queue, its count of unfinished
\* tasks and the worker as they were; a job leaves the queue only at its
\* head, into the hands of the worker, which then goes to the detector; a
\* put_nowait on a queue that is full is refused whatever sessions its jobs
\* are of; a result is dropped only at the check of the registry, after
\* detect_objects has returned it
C22_DisconnectKeepsQueue ==
    /\ [][(conn' # conn \/ \E c \in SIDs : hpc[c] = "dc_lock" /\ hpc'[c] # "dc_lock") =>
            /\ queue' = queue
            /\ unfinished_tasks' = unfinished_tasks
            /\ wpc' = wpc /\ job' = job]_vars
    /\ [][(queue' # queue /\ Len(queue') <= Len(queue)) =>
            /\ wpc = "get" /\ wpc' = "detect"
            /\ job' = Head(queue) /\ queue' = Tail(queue)]_vars
    /\ [][\A c \in SIDs :
            (hpc[c] = "pf_put" /\ hpc'[c] # "pf_put" /\ Len(queue) >= maxsize) =>
                queue' = queue /\ Len(sent') = Len(sent) + 1]_vars
    /\ [][dropped' # dropped =>
            /\ wpc = "lock" /\ wpc' = "task_done"
            /\ results = DetectResult(job.image)
            /\ dropped' = dropped \cup {job.timestamp}]_vars

\* A has disconnected and s1 is gone; the worker ran the detector on one job
\* of s1 and dropped its result; the ten jobs of s1 still queued made the
\* queue refuse a frame of B's session s2
C22_Witness ==
    /\ conn["A"] = "closed"
    /\ "s1" \notin Keys(active_sessions)
    /\ "s2" \in Keys(active_sessions)
    /\ Len(queue) = QueueMaxsize
    /\ Cardinality(OrphanJobs) = QueueMaxsize
    /\ dropped # {}
    /\ \E i \in QueueFullMessages : sent[i].room = "B" /\ sent[i].data.session_id = "s2"

====
